---- MODULE Spec2Model ----
(***************************************************************************)
(* Model of rspirv-reflect (src/src/lib.rs): reflection over an already    *)
(* parsed SPIR-V module.  The module (header, execution_modes,            *)
(* types_global_values, annotations, debug_names) is immutable; the        *)
(* operations are pure functions of it.  Every fallible function returns a *)
(* tagged result: Ok(v), Err(kind, instr, n) for a returned ReflectError,  *)
(* Panic(msg) for an abort (assert!, unwrap, todo!, slice out of range),   *)
(* or StackOverflow for a recursion that never returns.  `call` and        *)
(* `result` hold the last call and its outcome; `outcomes` remembers the   *)
(* first outcome of every call made.                                       *)
(***************************************************************************)
EXTENDS Integers, Sequences, FiniteSets, TLC

VARIABLES header, execution_modes, types_global_values, annotations,
          debug_names, call, result, outcomes

vars == <<header, execution_modes, types_global_values, annotations,
          debug_names, call, result, outcomes>>

module == <<header, execution_modes, types_global_values, annotations,
            debug_names>>

(***************************************************************************)
(* Bounds of the model.                                                    *)
(***************************************************************************)
\* array length constants range over 0..MaxLen
MaxLen == 2
\* the `sampled` literal of a TypeImage ranges over 0..MaxSampled
MaxSampled == 3
\* header versions range over major 1..MaxMajor, minor 0..MaxMinor
MaxMajor == 2
MaxMinor == 4
\* a module declares at most MaxVars variables
MaxVars == 2
\* descriptor set and binding indices range over 0..MaxIndex
MaxIndex == 1
\* a variable carries at most MaxDecos decorations
MaxDecos == 3
\* a struct has at most MaxMembers members
MaxMembers == 3
MaxPushVars == 3
\* a module holds at most MaxModes OpExecutionMode instructions, with
\* workgroup dimensions in 1..MaxDim
MaxModes == 3
MaxDim == 2
\* an annotation section of its own holds at most MaxAnnotations instructions
MaxAnnotations == 3

(***************************************************************************)
(* Values: Option, Result, Operand, Instruction.                           *)
(***************************************************************************)
\* Option<u32>::None for result_id / result_type
NoId == -1

Operand(k, v) == [k |-> k, v |-> v]

Instruction(opcode, result_type, result_id, operands) ==
    [opcode |-> opcode, result_type |-> result_type,
     result_id |-> result_id, operands |-> operands]

\* placeholder carried by error variants that hold no instruction
NoInstr == Instruction("Nop", NoId, NoId, <<>>)

Ok(v) == [tag |-> "Ok", v |-> v]
Err(kind, instr, n) == [tag |-> "Err", kind |-> kind, instr |-> instr, n |-> n]
Panic(msg) == [tag |-> "Panic", msg |-> msg]
\* unbounded recursion through a cyclic id graph exhausts the call stack
StackOverflow == [tag |-> "Overflow"]

IsOk(r) == r.tag = "Ok"
IsErr(r, kind) == r.tag = "Err" /\ r.kind = kind
IsPanic(r) == r.tag = "Panic"

\* DescriptorType constants
SAMPLER == 0
COMBINED_IMAGE_SAMPLER == 1
SAMPLED_IMAGE == 2
STORAGE_IMAGE == 3
UNIFORM_TEXEL_BUFFER == 4
STORAGE_TEXEL_BUFFER == 5
UNIFORM_BUFFER == 6
STORAGE_BUFFER == 7
INPUT_ATTACHMENT == 10
ACCELERATION_STRUCTURE_KHR == 1000150000

\* BindingCount
One == [kind |-> "One", n |-> 0]
StaticSized(n) == [kind |-> "StaticSized", n |-> n]
Unbounded == [kind |-> "Unbounded", n |-> 0]

DescriptorInfo(ty, binding_count, name) ==
    [ty |-> ty, binding_count |-> binding_count, name |-> name]

(***************************************************************************)
(* Instruction-graph accessors.                                            *)
(***************************************************************************)
\* get_ref_operand_at! / get_operand_at!: operand idx (0-based) of the kind
get_operand_at(instr, kind, idx) ==
    IF idx >= Len(instr.operands)
    THEN Err("OperandIndexError", instr, idx)
    ELSE IF instr.operands[idx + 1].k = kind
         THEN Ok(instr.operands[idx + 1].v)
         ELSE Err("OperandError", instr, idx)

\* mutant: an annotation without an IdRef at operand 0 skipped
RECURSIVE find_annotations_for_id_skipping(_, _)
find_annotations_for_id_skipping(anns, id) ==
    IF anns = <<>> THEN Ok(<<>>)
    ELSE LET a == Head(anns)
             op == get_operand_at(a, "IdRef", 0)
             rest == find_annotations_for_id_skipping(Tail(anns), id)
         IN  IF IsOk(op) /\ op.v = id THEN Ok(<<a>> \o rest.v) ELSE rest

\* the annotations whose operand 0 is IdRef(id), in source order; the first
\* operand-shape error in source order is returned instead
RECURSIVE find_annotations_for_id(_, _)
find_annotations_for_id(anns, id) ==
    IF anns = <<>> THEN Ok(<<>>)
    ELSE LET a == Head(anns)
             op == get_operand_at(a, "IdRef", 0)
         IN  IF ~IsOk(op) THEN op
             ELSE LET rest == find_annotations_for_id(Tail(anns), id)
                  IN  IF ~IsOk(rest) THEN rest
                      ELSE IF op.v = id THEN Ok(<<a>> \o rest.v) ELSE rest

\* the first instruction with result_id == Some(id)
RECURSIVE find_assignment_for(_, _)
find_assignment_for(instructions, id) ==
    IF instructions = <<>> THEN Err("UnassignedResultId", NoInstr, id)
    ELSE IF Head(instructions).result_id = id THEN Ok(Head(instructions))
    ELSE find_assignment_for(Tail(instructions), id)

(***************************************************************************)
(* Type classifier.                                                        *)
(***************************************************************************)
\* Option<ModuleHeader>::None
NoHeader == <<>>

\* the storage classes of the uniform variables
UniformStorageClasses == {"Uniform", "UniformConstant", "StorageBuffer"}

\* (u8, u8) tuples compare lexicographically
\* mutant: the comparison with (1, 3) taken strictly
version_lt(a, b) == a[1] < b[1] \/ (a[1] = b[1] /\ a[2] < b[2])
version_le(a, b) == a[1] < b[1] \/ (a[1] = b[1] /\ a[2] <= b[2])
version_ge(a, b) == a[1] > b[1] \/ (a[1] = b[1] /\ a[2] >= b[2])

IMAGE_SAMPLED == 1
IMAGE_STORAGE == 2

\* mutant: the sampled literal tested before Dim SubpassData
image_descriptor_type_sampled_first(type_instruction, dim, sampled) ==
    IF dim = "DimBuffer"
    THEN IF sampled = IMAGE_SAMPLED THEN Ok(UNIFORM_TEXEL_BUFFER)
         ELSE IF sampled = IMAGE_STORAGE THEN Ok(STORAGE_TEXEL_BUFFER)
         ELSE Err("ImageSampledFieldUnknown", type_instruction, sampled)
    ELSE IF sampled = IMAGE_SAMPLED THEN Ok(SAMPLED_IMAGE)
    ELSE IF sampled = IMAGE_STORAGE THEN Ok(STORAGE_IMAGE)
    ELSE IF dim = "DimSubpassData" THEN Ok(INPUT_ATTACHMENT)
    ELSE Err("ImageSampledFieldUnknown", type_instruction, sampled)

\* TypeImage arm: descriptor type from Dim (operand 1) and sampled (operand 5)
image_descriptor_type(type_instruction, dim, sampled) ==
    IF dim = "DimBuffer"
    THEN IF sampled = IMAGE_SAMPLED THEN Ok(UNIFORM_TEXEL_BUFFER)
         ELSE IF sampled = IMAGE_STORAGE THEN Ok(STORAGE_TEXEL_BUFFER)
         ELSE Err("ImageSampledFieldUnknown", type_instruction, sampled)
    ELSE IF dim = "DimSubpassData" THEN Ok(INPUT_ATTACHMENT)
    ELSE IF sampled = IMAGE_SAMPLED THEN Ok(SAMPLED_IMAGE)
    ELSE IF sampled = IMAGE_STORAGE THEN Ok(STORAGE_IMAGE)
    ELSE Err("ImageSampledFieldUnknown", type_instruction, sampled)

\* TypeStruct arm, the loop over the annotations' operands: whether some
\* operand of some annotation is Decoration(decoration)
has_decoration(anns, decoration) ==
    \E i \in 1..Len(anns) :
        \E j \in 1..Len(anns[i].operands) :
            /\ anns[i].operands[j].k = "Decoration"
            /\ anns[i].operands[j].v = decoration

\* mutant: a missing Block from 1.3 on returned as UnknownStruct
struct_descriptor_type_block_unasserted(type_instruction, anns, storage_class) ==
    LET is_uniform_buffer == has_decoration(anns, "Block")
        is_storage_buffer == has_decoration(anns, "BufferBlock")
    IN  IF header = NoHeader THEN Err("MissingHeader", NoInstr, 0)
        ELSE IF version_le(header, <<1, 3>>) /\ is_storage_buffer
        THEN Ok(STORAGE_BUFFER)
        ELSE IF ~is_uniform_buffer
        THEN Err("UnknownStruct", type_instruction, 0)
        ELSE IF version_ge(header, <<1, 3>>)
        THEN IF is_storage_buffer
             THEN Panic("BufferBlock decoration is obsolete in SPIRV > 1.3")
             ELSE IF storage_class \in {"Uniform", "UniformConstant"}
             THEN Ok(UNIFORM_BUFFER)
             ELSE IF storage_class = "StorageBuffer" THEN Ok(STORAGE_BUFFER)
             ELSE Err("UnknownStorageClass", NoInstr, 0)
        ELSE Ok(UNIFORM_BUFFER)

\* TypeStruct arm: the version-sensitive decision
struct_descriptor_type(type_instruction, anns, storage_class) ==
    LET is_uniform_buffer == has_decoration(anns, "Block")
        is_storage_buffer == has_decoration(anns, "BufferBlock")
    IN  IF header = NoHeader THEN Err("MissingHeader", NoInstr, 0)
        ELSE IF version_le(header, <<1, 3>>) /\ is_storage_buffer
        THEN Ok(STORAGE_BUFFER)
        ELSE IF version_ge(header, <<1, 3>>)
        THEN IF is_storage_buffer
             THEN Panic("BufferBlock decoration is obsolete in SPIRV > 1.3")
             ELSE IF ~is_uniform_buffer
             THEN Panic("Struct requires Block annotation in SPIRV > 1.3")
             ELSE IF storage_class \in {"Uniform", "UniformConstant"}
             THEN Ok(UNIFORM_BUFFER)
             ELSE IF storage_class = "StorageBuffer" THEN Ok(STORAGE_BUFFER)
             ELSE Err("UnknownStorageClass", NoInstr, 0)
        ELSE IF is_uniform_buffer THEN Ok(UNIFORM_BUFFER)
        ELSE Err("UnknownStruct", type_instruction, 0)

\* mutant: the length read as a 32-bit literal whatever the width
array_length_literal_32_only(num_elements, width) ==
    IF width \in {32, 64} THEN get_operand_at(num_elements, "LiteralInt32", 0)
    ELSE Err("UnexpectedIntWidth", NoInstr, width)

\* TypeArray arm: the literal of the length constant, read by the width of
\* the constant's TypeInt (lengths of the model fit usize, so try_into
\* succeeds)
array_length_literal(num_elements, width) ==
    IF width = 32 THEN get_operand_at(num_elements, "LiteralInt32", 0)
    ELSE IF width = 64 THEN get_operand_at(num_elements, "LiteralInt64", 0)
    ELSE Err("UnexpectedIntWidth", NoInstr, width)

\* TypeArray arm: the number of elements, from operand 1 of the array type
array_num_elements(type_instruction) ==
    LET num_elements_id == get_operand_at(type_instruction, "IdRef", 1)
    IN  IF ~IsOk(num_elements_id) THEN num_elements_id
        ELSE
        LET num_elements ==
                find_assignment_for(types_global_values, num_elements_id.v)
        IN  IF ~IsOk(num_elements) THEN num_elements
            ELSE IF num_elements.v.opcode # "Constant"
            THEN Panic("assert_eq num_elements opcode Constant")
            ELSE IF num_elements.v.result_type = NoId
            THEN Panic("unwrap on None result_type")
            ELSE
            LET num_elements_ty ==
                    find_assignment_for(types_global_values,
                                        num_elements.v.result_type)
            IN  IF ~IsOk(num_elements_ty) THEN num_elements_ty
                ELSE IF num_elements_ty.v.opcode # "TypeInt"
                THEN Panic("assert_eq num_elements_ty opcode TypeInt")
                ELSE
                LET width == get_operand_at(num_elements_ty.v, "LiteralInt32", 0)
                IN  IF ~IsOk(width) THEN width
                    ELSE
                    LET n == array_length_literal(num_elements.v, width.v)
                    IN  IF ~IsOk(n) THEN n
                        ELSE IF ~(n.v >= 1)
                        THEN Panic("assert num_elements >= 1")
                        ELSE n

\* mutant: every sampled image becomes a combined image sampler
sampled_image_descriptor_always_combined(descriptor, dim) ==
    IF dim = "DimSubpassData" THEN Panic("assert_ne dim DimSubpassData")
    ELSE Ok([descriptor EXCEPT !.ty = COMBINED_IMAGE_SAMPLER])

\* TypeSampledImage arm, after the image has been classified
sampled_image_descriptor(descriptor, dim) ==
    IF dim = "DimSubpassData" THEN Panic("assert_ne dim DimSubpassData")
    ELSE IF dim = "DimBuffer"
    THEN IF descriptor.ty # UNIFORM_TEXEL_BUFFER
            /\ descriptor.ty # STORAGE_TEXEL_BUFFER
         THEN Panic("todo: Unexpected sampled image type")
         ELSE Ok(descriptor)
    ELSE Ok([descriptor EXCEPT !.ty = COMBINED_IMAGE_SAMPLER])

\* mutant: the element's binding_count kept
with_binding_count_of_element(inner, binding_count) == inner

\* mutant: the count of an element that is itself an array kept
with_binding_count_innermost(inner, binding_count) ==
    IF ~IsOk(inner) THEN inner
    ELSE IF inner.v.binding_count # One THEN inner
    ELSE Ok([inner.v EXCEPT !.binding_count = binding_count])

\* the overlay `DescriptorInfo { binding_count: .., ..inner? }`
with_binding_count(inner, binding_count) ==
    IF ~IsOk(inner) THEN inner
    ELSE Ok([inner.v EXCEPT !.binding_count = binding_count])

\* the second match: the terminal types
terminal_descriptor_type(type_instruction, anns, storage_class) ==
    IF type_instruction.opcode = "TypeSampler" THEN Ok(SAMPLER)
    ELSE IF type_instruction.opcode = "TypeImage"
    THEN LET dim == get_operand_at(type_instruction, "Dim", 1)
         IN  IF ~IsOk(dim) THEN dim
             ELSE LET sampled == get_operand_at(type_instruction, "LiteralInt32", 5)
                  IN  IF ~IsOk(sampled) THEN sampled
                      ELSE image_descriptor_type(type_instruction, dim.v, sampled.v)
    ELSE IF type_instruction.opcode = "TypeStruct"
    THEN struct_descriptor_type(type_instruction, anns, storage_class)
    ELSE IF type_instruction.opcode = "TypeAccelerationStructureKHR"
    THEN Ok(ACCELERATION_STRUCTURE_KHR)
    ELSE Err("UnhandledTypeInstruction", type_instruction, 0)

\* `active` holds the result ids of the type instructions whose calls are on
\* the stack: a call on one of them repeats an enclosing call with the same
\* arguments, so the recursion never returns and the stack overflows
RECURSIVE get_descriptor_type(_, _, _)
RECURSIVE get_descriptor_type_for_var(_, _, _)

get_descriptor_type_for_var(type_id, storage_class, active) ==
    LET type_instruction == find_assignment_for(types_global_values, type_id)
    IN  IF ~IsOk(type_instruction) THEN type_instruction
        ELSE get_descriptor_type(type_instruction.v, storage_class, active)

get_descriptor_type(type_instruction, storage_class, active) ==
    IF type_instruction.result_id \in active THEN StackOverflow
    ELSE
    LET nested == active \cup {type_instruction.result_id}
        anns == IF type_instruction.result_id = NoId THEN Ok(<<>>)
                ELSE find_annotations_for_id(annotations,
                                             type_instruction.result_id)
    IN
    IF ~IsOk(anns) THEN anns
    ELSE IF type_instruction.opcode = "TypeArray"
    THEN LET element_type_id == get_operand_at(type_instruction, "IdRef", 0)
         IN  IF ~IsOk(element_type_id) THEN element_type_id
             ELSE LET num_elements == array_num_elements(type_instruction)
                  IN  IF ~IsOk(num_elements) THEN num_elements
                      ELSE with_binding_count(
                               get_descriptor_type_for_var(
                                   element_type_id.v, storage_class, nested),
                               StaticSized(num_elements.v))
    ELSE IF type_instruction.opcode = "TypeRuntimeArray"
    THEN LET element_type_id == get_operand_at(type_instruction, "IdRef", 0)
         IN  IF ~IsOk(element_type_id) THEN element_type_id
             ELSE with_binding_count(
                      get_descriptor_type_for_var(
                          element_type_id.v, storage_class, nested),
                      Unbounded)
    ELSE IF type_instruction.opcode = "TypePointer"
    THEN LET ptr_storage_class ==
                 get_operand_at(type_instruction, "StorageClass", 0)
         IN  IF ~IsOk(ptr_storage_class) THEN ptr_storage_class
             ELSE LET element_type_id ==
                          get_operand_at(type_instruction, "IdRef", 1)
                  IN  IF ~IsOk(element_type_id) THEN element_type_id
                      ELSE IF storage_class # ptr_storage_class.v
                      THEN Panic("assert_eq storage_class ptr_storage_class")
                      ELSE get_descriptor_type_for_var(
                               element_type_id.v, storage_class, nested)
    ELSE IF type_instruction.opcode = "TypeSampledImage"
    THEN LET element_type_id == get_operand_at(type_instruction, "IdRef", 0)
         IN  IF ~IsOk(element_type_id) THEN element_type_id
             ELSE
             LET image_instruction ==
                     find_assignment_for(types_global_values, element_type_id.v)
             IN  IF ~IsOk(image_instruction) THEN image_instruction
                 ELSE
                 LET descriptor ==
                         get_descriptor_type(image_instruction.v,
                                             storage_class, nested)
                 IN  IF ~IsOk(descriptor) THEN descriptor
                     ELSE
                     LET dim == get_operand_at(image_instruction.v, "Dim", 1)
                     IN  IF ~IsOk(dim) THEN dim
                         ELSE sampled_image_descriptor(descriptor.v, dim.v)
    ELSE LET descriptor_type ==
                 terminal_descriptor_type(type_instruction, anns.v, storage_class)
         IN  IF ~IsOk(descriptor_type) THEN descriptor_type
             ELSE Ok(DescriptorInfo(descriptor_type.v, One, ""))



(***************************************************************************)
(* Binding enumerator: get_descriptor_sets.                                *)
(***************************************************************************)
\* mutant: every OpVariable kept, whatever its storage class
RECURSIVE variables_of_any_class(_, _)
variables_of_any_class(instructions, classes) ==
    IF instructions = <<>> THEN Ok(<<>>)
    ELSE LET i == Head(instructions)
             rest == variables_of_any_class(Tail(instructions), classes)
         IN  IF i.opcode # "Variable" THEN rest
             ELSE IF ~IsOk(rest) THEN rest
             ELSE Ok(<<i>> \o rest.v)

\* the OpVariables whose storage class is one of `classes`, in source order;
\* the first operand-shape error is returned instead
RECURSIVE variables_of_class(_, _)
variables_of_class(instructions, classes) ==
    IF instructions = <<>> THEN Ok(<<>>)
    ELSE LET i == Head(instructions)
         IN  IF i.opcode # "Variable"
             THEN variables_of_class(Tail(instructions), classes)
             ELSE LET cls == get_operand_at(i, "StorageClass", 0)
                  IN  IF ~IsOk(cls) THEN cls
                      ELSE LET rest == variables_of_class(Tail(instructions), classes)
                           IN  IF ~IsOk(rest) THEN rest
                               ELSE IF cls.v \in classes
                               THEN Ok(<<i>> \o rest.v)
                               ELSE rest

\* the empty BTreeMap
EmptyMap == [k \in {} |-> 0]
MapInsert(map, k, v) ==
    [x \in (DOMAIN map) \cup {k} |-> IF x = k THEN v ELSE map[x]]

\* mutant: the entries visited from the highest key down
RECURSIVE iter_descending(_)
iter_descending(map) ==
    IF DOMAIN map = {} THEN <<>>
    ELSE LET k == CHOOSE x \in DOMAIN map : \A y \in DOMAIN map : y <= x
         IN  <<<<k, map[k]>>>>
             \o iter_descending([x \in (DOMAIN map) \ {k} |-> map[x]])

\* BTreeMap::iter: the entries <<key, value>> in the order of the keys
RECURSIVE iter(_)
iter(map) ==
    IF DOMAIN map = {} THEN <<>>
    ELSE LET k == CHOOSE x \in DOMAIN map : \A y \in DOMAIN map : x <= y
         IN  <<<<k, map[k]>>>> \o iter([x \in (DOMAIN map) \ {k} |-> map[x]])

\* the name table: OpName instructions collected into a map, a later entry
\* for an id replacing an earlier one
RECURSIVE collect_names(_, _)
collect_names(instructions, names) ==
    IF instructions = <<>> THEN Ok(names)
    ELSE LET i == Head(instructions)
         IN  IF i.opcode # "Name" THEN collect_names(Tail(instructions), names)
             ELSE LET element_type_id == get_operand_at(i, "IdRef", 0)
                  IN  IF ~IsOk(element_type_id) THEN element_type_id
                      ELSE LET name == get_operand_at(i, "LiteralString", 1)
                           IN  IF ~IsOk(name) THEN name
                               ELSE collect_names(
                                        Tail(instructions),
                                        MapInsert(names, element_type_id.v, name.v))

\* mutant: a repeated decoration replaces the earlier value
RECURSIVE fold_set_binding_last_wins(_, _)
fold_set_binding_last_wins(anns, state) ==
    IF anns = <<>> THEN Ok(state)
    ELSE LET a == Head(anns)
         IN  IF Len(a.operands) >= 3 /\ a.operands[2].k = "Decoration"
                /\ a.operands[3].k = "LiteralInt32"
                /\ a.operands[2].v = "DescriptorSet"
             THEN fold_set_binding_last_wins(Tail(anns),
                                             <<a.operands[3].v, state[2]>>)
             ELSE IF Len(a.operands) >= 3 /\ a.operands[2].k = "Decoration"
                     /\ a.operands[3].k = "LiteralInt32"
                     /\ a.operands[2].v = "Binding"
             THEN fold_set_binding_last_wins(Tail(anns),
                                             <<state[1], a.operands[3].v>>)
             ELSE fold_set_binding_last_wins(Tail(anns), state)

\* the fold over a variable's annotations; state is <<set, binding>> of
\* Option<u32>
RECURSIVE fold_set_binding(_, _)
fold_set_binding(anns, state) ==
    IF anns = <<>> THEN Ok(state)
    ELSE LET a == Head(anns)
         IN  IF ~(Len(a.operands) >= 3)
             THEN fold_set_binding(Tail(anns), state)
             ELSE IF a.operands[2].k = "Decoration"
                     /\ a.operands[3].k = "LiteralInt32"
             THEN IF a.operands[2].v = "DescriptorSet"
                  THEN IF state[1] # NoId THEN Panic("Set already has a value!")
                       ELSE fold_set_binding(Tail(anns),
                                             <<a.operands[3].v, state[2]>>)
                  ELSE IF a.operands[2].v = "Binding"
                  THEN IF state[2] # NoId
                       THEN Panic("Binding already has a value!")
                       ELSE fold_set_binding(Tail(anns),
                                             <<state[1], a.operands[3].v>>)
                  ELSE fold_set_binding(Tail(anns), state)
             ELSE fold_set_binding(Tail(anns), state)

\* mutant: the name attached without the test for "$Globals"
attach_name_unchecked(descriptor_info, names, var_id) ==
    IF var_id \in DOMAIN names
    THEN Ok([descriptor_info EXCEPT !.name = names[var_id]])
    ELSE Ok(descriptor_info)

\* the name lookup of the loop body: the descriptor with the variable's name
attach_name(descriptor_info, names, var_id) ==
    IF var_id \in DOMAIN names
    THEN IF names[var_id] = "$Globals"
         THEN Err("BindingGlobalParameterBuffer", NoInstr, 0)
         ELSE Ok([descriptor_info EXCEPT !.name = names[var_id]])
    ELSE Ok(descriptor_info)

\* mutant: the insert without the assertion on the replaced value
insert_binding_overwrite(unique_sets, set, binding, descriptor_info) ==
    LET current_set == IF set \in DOMAIN unique_sets THEN unique_sets[set]
                       ELSE EmptyMap
    IN  Ok(MapInsert(unique_sets, set,
                     MapInsert(current_set, binding, descriptor_info)))

\* current_set.insert(binding, descriptor_info) and the assertion on it
insert_binding(unique_sets, set, binding, descriptor_info) ==
    LET current_set == IF set \in DOMAIN unique_sets THEN unique_sets[set]
                       ELSE EmptyMap
    IN  IF binding \in DOMAIN current_set
        THEN Panic("Can't bind to the same slot twice within the same shader")
        ELSE Ok(MapInsert(unique_sets, set,
                          MapInsert(current_set, binding, descriptor_info)))

\* the body of the loop over the uniform variables
process_variable(var, names, unique_sets) ==
    IF var.result_id = NoId THEN Ok(unique_sets)
    ELSE
    LET anns == find_annotations_for_id(annotations, var.result_id)
    IN  IF ~IsOk(anns) THEN anns
        ELSE
        LET folded == fold_set_binding(anns.v, <<NoId, NoId>>)
        IN  IF ~IsOk(folded) THEN folded
            ELSE IF folded.v[1] = NoId THEN Err("MissingSetDecoration", var, 0)
            ELSE IF folded.v[2] = NoId
            THEN Err("MissingBindingDecoration", var, 0)
            ELSE
            LET storage_class == get_operand_at(var, "StorageClass", 0)
            IN  IF ~IsOk(storage_class) THEN storage_class
                ELSE IF var.result_type = NoId
                THEN Err("VariableWithoutReturnType", var, 0)
                ELSE
                LET descriptor_info ==
                        get_descriptor_type_for_var(var.result_type,
                                                    storage_class.v, {})
                IN  IF ~IsOk(descriptor_info) THEN descriptor_info
                    ELSE
                    LET named == attach_name(descriptor_info.v, names,
                                             var.result_id)
                    IN  IF ~IsOk(named) THEN named
                        ELSE insert_binding(unique_sets, folded.v[1],
                                            folded.v[2], named.v)

RECURSIVE process_variables(_, _, _)
process_variables(uniform_variables, names, unique_sets) ==
    IF uniform_variables = <<>> THEN Ok(unique_sets)
    ELSE LET next == process_variable(Head(uniform_variables), names, unique_sets)
         IN  IF ~IsOk(next) THEN next
             ELSE process_variables(Tail(uniform_variables), names, next.v)

get_descriptor_sets ==
    LET uniform_variables ==
            variables_of_class(types_global_values, UniformStorageClasses)
    IN  IF ~IsOk(uniform_variables) THEN uniform_variables
        ELSE LET names == collect_names(debug_names, EmptyMap)
             IN  IF ~IsOk(names) THEN names
                 ELSE process_variables(uniform_variables.v, names.v, EmptyMap)

(***************************************************************************)
(* Push-constant extractor.  Sizes are u32; the sizes of the model's       *)
(* modules stay far below 2^32, so the products and sums below never wrap. *)
(* The debug_assert!s on operand counts hold for every instruction the     *)
(* model builds.                                                           *)
(***************************************************************************)
RECURSIVE SeqMax(_)
SeqMax(xs) ==
    IF xs = <<>> THEN 0
    ELSE LET m == SeqMax(Tail(xs)) IN IF Head(xs) > m THEN Head(xs) ELSE m

\* the Offset literals of the MemberDecorate annotations, in source order;
\* the first operand-shape error is returned instead
RECURSIVE member_offsets(_)
member_offsets(anns) ==
    IF anns = <<>> THEN Ok(<<>>)
    ELSE LET i == Head(anns)
         IN  IF i.opcode # "MemberDecorate" THEN member_offsets(Tail(anns))
             ELSE
             LET decoration == get_operand_at(i, "Decoration", 2)
                 offset == IF ~IsOk(decoration) THEN decoration
                           ELSE IF decoration.v = "Offset"
                           THEN get_operand_at(i, "LiteralInt32", 3)
                           ELSE Ok(NoId)
             IN  IF ~IsOk(offset) THEN offset
                 ELSE LET rest == member_offsets(Tail(anns))
                      IN  IF ~IsOk(rest) THEN rest
                          ELSE IF IsOk(decoration) /\ decoration.v = "Offset"
                          THEN Ok(<<offset.v>> \o rest.v)
                          ELSE rest

\* mutant: the highest offset taken for a struct of one member too
byte_offset_to_last_var_no_early_out(struct_instruction) ==
    IF struct_instruction.result_id = NoId
    THEN Err("MissingResultId", struct_instruction, 0)
    ELSE LET anns == find_annotations_for_id(annotations,
                                             struct_instruction.result_id)
         IN  IF ~IsOk(anns) THEN anns
             ELSE LET offsets == member_offsets(anns.v)
                  IN  IF ~IsOk(offsets) THEN offsets
                      ELSE Ok(SeqMax(offsets.v))

byte_offset_to_last_var(struct_instruction) ==
    IF Len(struct_instruction.operands) < 2 THEN Ok(0)
    ELSE IF struct_instruction.result_id = NoId
    THEN Err("MissingResultId", struct_instruction, 0)
    ELSE LET anns == find_annotations_for_id(annotations,
                                             struct_instruction.result_id)
         IN  IF ~IsOk(anns) THEN anns
             ELSE LET offsets == member_offsets(anns.v)
                  IN  IF ~IsOk(offsets) THEN offsets
                      ELSE Ok(SeqMax(offsets.v))

RECURSIVE calculate_variable_size_bytes(_, _)
\* mutant: the size taken of the type itself, not of the type behind
\* operand 0
element_size_times_of_itself(type_instruction, count, active) ==
    LET type_size_bytes == calculate_variable_size_bytes(type_instruction, active)
    IN  IF ~IsOk(type_size_bytes) THEN type_size_bytes
        ELSE IF ~IsOk(count) THEN count
        ELSE Ok(type_size_bytes.v * count.v)

\* size of the type behind operand 0 times `count`
element_size_times(type_instruction, count, active) ==
    LET type_id == get_operand_at(type_instruction, "IdRef", 0)
    IN  IF ~IsOk(type_id) THEN type_id
        ELSE
        LET var_type_instruction ==
                find_assignment_for(types_global_values, type_id.v)
        IN  IF ~IsOk(var_type_instruction) THEN var_type_instruction
            ELSE
            LET type_size_bytes ==
                    calculate_variable_size_bytes(var_type_instruction.v, active)
            IN  IF ~IsOk(type_size_bytes) THEN type_size_bytes
                ELSE IF ~IsOk(count) THEN count
                ELSE Ok(type_size_bytes.v * count.v)

\* mutant: the length constant read as a literal of either width
array_constant_count_either_width(type_instruction) ==
    LET var_constant_id == get_operand_at(type_instruction, "IdRef", 1)
    IN  IF ~IsOk(var_constant_id) THEN var_constant_id
        ELSE
        LET constant_instruction ==
                find_assignment_for(types_global_values, var_constant_id.v)
        IN  IF ~IsOk(constant_instruction) THEN constant_instruction
            ELSE LET count == get_operand_at(constant_instruction.v,
                                             "LiteralInt32", 0)
                 IN  IF IsOk(count) THEN count
                     ELSE get_operand_at(constant_instruction.v,
                                         "LiteralInt64", 0)

\* the count of a TypeArray: the length constant read as a 32-bit literal
array_constant_count(type_instruction) ==
    LET var_constant_id == get_operand_at(type_instruction, "IdRef", 1)
    IN  IF ~IsOk(var_constant_id) THEN var_constant_id
        ELSE
        LET constant_instruction ==
                find_assignment_for(types_global_values, var_constant_id.v)
        IN  IF ~IsOk(constant_instruction) THEN constant_instruction
            ELSE get_operand_at(constant_instruction.v, "LiteralInt32", 0)

calculate_variable_size_bytes(type_instruction, active) ==
    IF type_instruction.result_id \in active THEN StackOverflow
    ELSE IF type_instruction.opcode \in {"TypeInt", "TypeFloat"}
    THEN LET width == get_operand_at(type_instruction, "LiteralInt32", 0)
         IN  IF ~IsOk(width) THEN width ELSE Ok(width.v \div 8)
    ELSE IF type_instruction.opcode \in {"TypeVector", "TypeMatrix"}
    THEN element_size_times(type_instruction,
                            get_operand_at(type_instruction, "LiteralInt32", 1),
                            active \cup {type_instruction.result_id})
    ELSE IF type_instruction.opcode = "TypeArray"
    THEN element_size_times(type_instruction,
                            array_constant_count(type_instruction),
                            active \cup {type_instruction.result_id})
    ELSE IF type_instruction.opcode = "TypeStruct"
    THEN IF type_instruction.operands # <<>>
         THEN LET byte_offset == byte_offset_to_last_var(type_instruction)
              IN  IF ~IsOk(byte_offset) THEN byte_offset
                  ELSE
                  LET last_var_idx == Len(type_instruction.operands) - 1
                      id_ref == get_operand_at(type_instruction, "IdRef",
                                               last_var_idx)
                  IN  IF ~IsOk(id_ref) THEN id_ref
                      ELSE
                      LET last == find_assignment_for(types_global_values,
                                                      id_ref.v)
                      IN  IF ~IsOk(last) THEN last
                          ELSE
                          LET size == calculate_variable_size_bytes(
                                          last.v,
                                          active \cup {type_instruction.result_id})
                          IN  IF ~IsOk(size) THEN size
                              ELSE Ok(byte_offset.v + size.v)
         ELSE Ok(0)
    ELSE Ok(0)

\* Option<PushConstantInfo>
NoPushConstant == [some |-> FALSE, offset |-> 0, size |-> 0]
PushConstantInfo(offset, size) == [some |-> TRUE, offset |-> offset, size |-> size]

\* mutant: the first push constant taken, however many there are
select_push_constant_first(push_constants) ==
    IF push_constants = <<>> THEN Ok(<<>>) ELSE Ok(<<Head(push_constants)>>)

\* the single push constant: too many is an error, none is Ok(<<>>)
select_push_constant(push_constants) ==
    IF Len(push_constants) > 1 THEN Err("TooManyPushConstants", NoInstr, 0)
    ELSE IF push_constants = <<>> THEN Ok(<<>>)
    ELSE Ok(<<Head(push_constants)>>)

\* the type whose size is taken: the pointee of a pointer type
push_constant_type(instruction) ==
    IF instruction.opcode = "TypePointer"
    THEN LET ptr_storage_class == get_operand_at(instruction, "StorageClass", 0)
         IN  IF ~IsOk(ptr_storage_class) THEN ptr_storage_class
             ELSE IF ptr_storage_class.v # "PushConstant"
             THEN Panic("assert_eq PushConstant ptr_storage_class")
             ELSE LET element_type_id == get_operand_at(instruction, "IdRef", 1)
                  IN  IF ~IsOk(element_type_id) THEN element_type_id
                      ELSE find_assignment_for(types_global_values,
                                               element_type_id.v)
    ELSE Ok(instruction)

get_push_constant_range ==
    LET push_constants == variables_of_class(types_global_values, {"PushConstant"})
    IN  IF ~IsOk(push_constants) THEN push_constants
        ELSE
        LET selected == select_push_constant(push_constants.v)
        IN  IF ~IsOk(selected) THEN selected
            ELSE IF selected.v = <<>> THEN Ok(NoPushConstant)
            ELSE IF selected.v[1].result_type = NoId
            THEN Panic("unwrap on None result_type")
            ELSE
            LET pointer == find_assignment_for(types_global_values,
                                               selected.v[1].result_type)
            IN  IF ~IsOk(pointer) THEN pointer
                ELSE
                LET instruction == push_constant_type(pointer.v)
                IN  IF ~IsOk(instruction) THEN instruction
                    ELSE
                    LET size_bytes ==
                            calculate_variable_size_bytes(instruction.v, {})
                    IN  IF ~IsOk(size_bytes) THEN size_bytes
                        ELSE Ok(PushConstantInfo(0, size_bytes.v))

(***************************************************************************)
(* Workgroup-size extractor.  Module::global_inst_iter walks the sections  *)
(* of the module in their layout order; of the sections the model keeps,   *)
(* the execution modes come first, then the debug names, the annotations   *)
(* and the types and global values.                                        *)
(***************************************************************************)
global_inst_iter ==
    execution_modes \o debug_names \o annotations \o types_global_values

\* Option<(u32, u32, u32)>
NoGroupSize == [some |-> FALSE, x |-> 0, y |-> 0, z |-> 0]
GroupSize(x, y, z) == [some |-> TRUE, x |-> x, y |-> y, z |-> z]

\* the slice pattern on inst.operands[1..]: exactly four operands
local_size_pattern(rest) ==
    /\ Len(rest) = 4
    /\ rest[1].k = "ExecutionMode"
    /\ rest[1].v \in {"LocalSize", "LocalSizeHint"}
    /\ rest[2].k = "LiteralInt32"
    /\ rest[3].k = "LiteralInt32"
    /\ rest[4].k = "LiteralInt32"

\* the loop of get_compute_group_size; operands[1..] is out of range, and
\* aborts, when the instruction has no operands
RECURSIVE scan_execution_modes(_)
scan_execution_modes(instructions) ==
    IF instructions = <<>> THEN Ok(NoGroupSize)
    ELSE LET inst == Head(instructions)
         IN  IF inst.opcode # "ExecutionMode"
             THEN scan_execution_modes(Tail(instructions))
             ELSE IF Len(inst.operands) < 1
             THEN Panic("range start index 1 out of range for slice of length 0")
             ELSE IF local_size_pattern(Tail(inst.operands))
             THEN Ok(GroupSize(inst.operands[3].v, inst.operands[4].v,
                               inst.operands[5].v))
             ELSE scan_execution_modes(Tail(instructions))

get_compute_group_size == scan_execution_modes(global_inst_iter)

(***************************************************************************)
(* Modules.  A module is built from a record of parameters; the ids below  *)
(* name its type declarations.                                             *)
(***************************************************************************)
\* result ids are numbered in declaration order, from 1
TypeOrder == <<"Int", "Len", "Float", "Sampler", "Image", "SampledImage",
               "Struct", "Accel", "RuntimeArray", "Array", "ArrayOfRuntime",
               "RuntimeOfArray", "Pointer", "Vector", "Matrix", "InnerLen",
               "InnerArray">>
IdOf(name) == CHOOSE i \in 1..Len(TypeOrder) : TypeOrder[i] = name
IntId == IdOf("Int")
LenId == IdOf("Len")
FloatId == IdOf("Float")
SamplerId == IdOf("Sampler")
ImageId == IdOf("Image")
SampledImageId == IdOf("SampledImage")
StructId == IdOf("Struct")
AccelId == IdOf("Accel")
RuntimeArrayId == IdOf("RuntimeArray")
ArrayId == IdOf("Array")
ArrayOfRuntimeId == IdOf("ArrayOfRuntime")
RuntimeOfArrayId == IdOf("RuntimeOfArray")
PointerId == IdOf("Pointer")
VectorId == IdOf("Vector")
MatrixId == IdOf("Matrix")
InnerLenId == IdOf("InnerLen")
InnerArrayId == IdOf("InnerArray")
\* the length of the array of samplers, which no other array has
InnerLen == MaxLen + 1
\* an id no instruction assigns
UnassignedId == Len(TypeOrder) + 1

TypeIds == IntId..UnassignedId

StorageClasses ==
    {"Uniform", "UniformConstant", "StorageBuffer", "PushConstant", "Input"}
Dims == {"Dim2D", "DimCube", "DimBuffer", "DimSubpassData"}
Widths == {8, 16, 32, 64, 128}
LiteralKinds == {"LiteralInt32", "LiteralInt64"}
Headers == {NoHeader} \cup ((1..MaxMajor) \X (0..MaxMinor))
\* element types of the arrays; RuntimeOfArrayId closes a cycle of type ids
\* and InnerArrayId nests an array of samplers
ElemTypes == {SamplerId, ImageId, SampledImageId, StructId, AccelId,
              VectorId, RuntimeOfArrayId, InnerArrayId}
PointeeTypes == {SamplerId, ImageId, StructId, RuntimeArrayId, ArrayId,
                 VectorId}

IdRef(id) == Operand("IdRef", id)
Lit32(n) == Operand("LiteralInt32", n)

TypeSection(p) ==
    << Instruction("TypeInt", NoId, IntId, <<Lit32(p.width), Lit32(0)>>),
       Instruction("Constant", IntId, LenId, <<Operand(p.lenKind, p.len)>>),
       Instruction("TypeFloat", NoId, FloatId, <<Lit32(32)>>),
       Instruction("TypeSampler", NoId, SamplerId, <<>>),
       Instruction("TypeImage", NoId, ImageId,
                   <<IdRef(FloatId), Operand("Dim", p.dim), Lit32(0), Lit32(0),
                     Lit32(0), Lit32(p.sampled),
                     Operand("ImageFormat", "Unknown")>>),
       Instruction("TypeSampledImage", NoId, SampledImageId, <<IdRef(ImageId)>>),
       Instruction("TypeStruct", NoId, StructId,
                   [i \in 1..Len(p.members) |-> IdRef(p.members[i].ty)]),
       Instruction("TypeAccelerationStructureKHR", NoId, AccelId, <<>>),
       Instruction("TypeRuntimeArray", NoId, RuntimeArrayId, <<IdRef(p.elem)>>),
       Instruction("TypeArray", NoId, ArrayId, <<IdRef(p.elem), IdRef(LenId)>>),
       Instruction("TypeArray", NoId, ArrayOfRuntimeId,
                   <<IdRef(RuntimeArrayId), IdRef(LenId)>>),
       Instruction("TypeRuntimeArray", NoId, RuntimeOfArrayId,
                   <<IdRef(ArrayId)>>),
       Instruction("TypePointer", NoId, PointerId,
                   <<Operand("StorageClass", p.psc), IdRef(p.target)>>),
       Instruction("TypeVector", NoId, VectorId, <<IdRef(FloatId), Lit32(4)>>),
       Instruction("TypeMatrix", NoId, MatrixId, <<IdRef(VectorId), Lit32(4)>>),
       Instruction("Constant", IntId, InnerLenId,
                   <<Operand(p.lenKind, InnerLen)>>),
       Instruction("TypeArray", NoId, InnerArrayId,
                   <<IdRef(SamplerId), IdRef(InnerLenId)>>) >>

Decorate(id, decoration) ==
    Instruction("Decorate", NoId, NoId,
                <<IdRef(id), Operand("Decoration", decoration)>>)
DecorateLit(id, decoration, n) ==
    Instruction("Decorate", NoId, NoId,
                <<IdRef(id), Operand("Decoration", decoration), Lit32(n)>>)
MemberDecorateLit(id, member, decoration, n) ==
    Instruction("MemberDecorate", NoId, NoId,
                <<IdRef(id), Lit32(member), Operand("Decoration", decoration),
                  Lit32(n)>>)

\* a struct member: its type and its Offset decoration (NoId: none)
Member(ty, off) == [ty |-> ty, off |-> off]

RECURSIVE MemberOffsets(_, _)
MemberOffsets(members, i) ==
    IF i > Len(members) THEN <<>>
    ELSE (IF members[i].off = NoId THEN <<>>
          ELSE <<MemberDecorateLit(StructId, i - 1, "Offset", members[i].off)>>)
         \o MemberOffsets(members, i + 1)

TypeAnnotations(p) ==
    <<DecorateLit(ArrayId, "ArrayStride", 16),
      Instruction("MemberDecorate", NoId, NoId,
                  <<IdRef(StructId), Lit32(0), Operand("Decoration", "ColMajor")>>)>>
    \o MemberOffsets(p.members, 1)
    \o (IF p.block THEN <<Decorate(StructId, "Block")>> ELSE <<>>)
    \o (IF p.bufferBlock THEN <<Decorate(StructId, "BufferBlock")>> ELSE <<>>)

DefaultParams ==
    [version |-> <<1, 3>>, width |-> 32, lenKind |-> "LiteralInt32",
     len |-> MaxLen, dim |-> "Dim2D", sampled |-> 1, elem |-> StructId,
     block |-> TRUE, bufferBlock |-> FALSE, psc |-> "Uniform",
     target |-> StructId, members |-> <<Member(FloatId, 0)>>]

StructParams ==
    {[DefaultParams EXCEPT !.version = v, !.block = b, !.bufferBlock = bb] :
        v \in Headers, b \in BOOLEAN, bb \in BOOLEAN}
ImageParams ==
    {[DefaultParams EXCEPT !.dim = d, !.sampled = s] :
        d \in Dims, s \in 0..MaxSampled}
ArrayParams ==
    {[DefaultParams EXCEPT !.width = w, !.lenKind = k, !.len = n, !.elem = e] :
        w \in Widths, k \in LiteralKinds, n \in 0..MaxLen, e \in ElemTypes}
PointerParams ==
    {[DefaultParams EXCEPT !.psc = c, !.target = t] :
        c \in StorageClasses, t \in PointeeTypes}

ClassifyParams == StructParams \cup ImageParams \cup ArrayParams \cup PointerParams

(***************************************************************************)
(* Modules with variables.  Variable i is declared after the types, behind *)
(* a pointer type of its own; a variable is described by its storage       *)
(* class, its pointee type, its decorations and its OpNames.               *)
(***************************************************************************)
VarPtrId(i) == UnassignedId + 2 * i - 1
VarId(i) == UnassignedId + 2 * i

SeqsUpTo(S, n) == UNION {[1..k -> S] : k \in 0..n}
Indices == 0..MaxIndex

\* a decoration of a variable: OpDecorate with a literal, OpDecorate without
\* one, or OpDecorateId
Deco(form, d, n) == [form |-> form, d |-> d, n |-> n]
DecoSet(i) == Deco("lit", "DescriptorSet", i)
DecoBinding(i) == Deco("lit", "Binding", i)
DecoLetters ==
    {DecoSet(i) : i \in Indices} \cup {DecoBinding(i) : i \in Indices}
    \cup {Deco("plain", "NonWritable", 0), Deco("id", "Binding", LenId)}

DecoInstruction(id, deco) ==
    IF deco.form = "lit" THEN DecorateLit(id, deco.d, deco.n)
    ELSE IF deco.form = "plain" THEN Decorate(id, deco.d)
    ELSE Instruction("DecorateId", NoId, NoId,
                     <<IdRef(id), Operand("Decoration", deco.d), IdRef(deco.n)>>)

Var(sc, target, decos, names) ==
    [sc |-> sc, target |-> target, decos |-> decos, names |-> names]

RECURSIVE Concat(_)
Concat(seqs) == IF seqs = <<>> THEN <<>> ELSE Head(seqs) \o Concat(Tail(seqs))

VarSection(vs) ==
    Concat([i \in 1..Len(vs) |->
        << Instruction("TypePointer", NoId, VarPtrId(i),
                       <<Operand("StorageClass", vs[i].sc), IdRef(vs[i].target)>>),
           Instruction("Variable", VarPtrId(i), VarId(i),
                       <<Operand("StorageClass", vs[i].sc)>>) >>])
VarAnnotations(vs) ==
    Concat([i \in 1..Len(vs) |->
        [j \in 1..Len(vs[i].decos) |-> DecoInstruction(VarId(i), vs[i].decos[j])]])
VarNames(vs) ==
    <<Instruction("MemberName", NoId, NoId,
                  <<IdRef(StructId), Lit32(0), Operand("LiteralString", "x")>>)>>
    \o Concat([i \in 1..Len(vs) |->
        [j \in 1..Len(vs[i].names) |->
            Instruction("Name", NoId, NoId,
                        <<IdRef(VarId(i)),
                          Operand("LiteralString", vs[i].names[j])>>)]])

\* one variable with any decorations
DecoVars ==
    {<<Var("Uniform", StructId, decos, <<>>)>> :
        decos \in SeqsUpTo(DecoLetters, MaxDecos)}
\* variables, each decorated with a set and a binding and named by position
VarName(i) == <<"a", "b", "c", "d", "e">>[i]
BoundVars ==
    UNION {
        {[i \in 1..n |-> Var(scs[i], StructId,
                             <<DecoSet(slots[i][1]), DecoBinding(slots[i][2])>>,
                             <<VarName(i)>>)] :
            scs \in [1..n -> {"Uniform", "StorageBuffer", "PushConstant"}],
            slots \in [1..n -> {0, MaxIndex} \X {0, MaxIndex}]} :
        n \in 0..MaxVars}
\* a variable with OpNames, of any type, behind an optional earlier variable
NamedVar ==
    {Var(sc, target, <<DecoSet(0), DecoBinding(0)>>, names) :
        sc \in UniformStorageClasses \cup {"PushConstant"},
        target \in {StructId, ImageId, RuntimeArrayId, VectorId, UnassignedId},
        names \in SeqsUpTo({"a", "$Globals"}, 2)}
EarlierVar ==
    {Var("Uniform", target, <<DecoSet(i), DecoBinding(i)>>, <<>>) :
        target \in {StructId, VectorId}, i \in Indices}
NamedVars ==
    {<<v>> : v \in NamedVar} \cup {<<e, v>> : e \in EarlierVar, v \in NamedVar}

SetsVars == DecoVars \cup BoundVars \cup NamedVars

(***************************************************************************)
(* Calls.                                                                  *)
(***************************************************************************)
Call(op, type_id, storage_class) ==
    [op |-> op, type_id |-> type_id, storage_class |-> storage_class]
NoCall == Call("none", NoId, "")
NoResult == [tag |-> "None"]

\* the calls made so far on this Reflection: for each, the outcome of its
\* first invocation and whether it was invoked again
Recorded(c, r) ==
    IF c \in DOMAIN outcomes THEN [outcomes EXCEPT ![c].repeated = TRUE]
    ELSE MapInsert(outcomes, c, [first |-> r, repeated |-> FALSE])

\* Reflection::new on a module holding type declarations
InitClassify ==
    \E p \in ClassifyParams :
        /\ header = p.version
        /\ types_global_values = TypeSection(p)
        /\ annotations = TypeAnnotations(p)
        /\ debug_names = <<>>
        /\ execution_modes = <<>>
        /\ call = NoCall
        /\ result = NoResult
        /\ outcomes = EmptyMap

\* get_descriptor_type_for_var(type_id, storage_class) on &self
ClassifyType(type_id, storage_class) ==
    /\ call' = Call("get_descriptor_type_for_var", type_id, storage_class)
    /\ result' = get_descriptor_type_for_var(type_id, storage_class, {})
    /\ outcomes' = Recorded(call', result')
    /\ UNCHANGED module

\* one call on the module of the behaviour
NextClassify ==
    /\ call = NoCall
    /\ \E type_id \in TypeIds, storage_class \in StorageClasses :
          ClassifyType(type_id, storage_class)

SpecClassify == InitClassify /\ [][NextClassify]_vars


\* Reflection::new on a module holding variables
InitSets ==
    \E vs \in SetsVars :
        /\ header = DefaultParams.version
        /\ types_global_values = TypeSection(DefaultParams) \o VarSection(vs)
        /\ annotations = TypeAnnotations(DefaultParams) \o VarAnnotations(vs)
        /\ debug_names = VarNames(vs)
        /\ execution_modes = <<>>
        /\ call = NoCall
        /\ result = NoResult
        /\ outcomes = EmptyMap

\* mutant: the name table taken out of the module by the call
GetDescriptorSets_taking_names ==
    /\ call' = Call("get_descriptor_sets", NoId, "")
    /\ result' = get_descriptor_sets
    /\ outcomes' = Recorded(call', result')
    /\ debug_names' = <<>>
    /\ UNCHANGED <<header, execution_modes, types_global_values, annotations>>

\* get_descriptor_sets() on &self
GetDescriptorSets ==
    /\ call' = Call("get_descriptor_sets", NoId, "")
    /\ result' = get_descriptor_sets
    /\ outcomes' = Recorded(call', result')
    /\ UNCHANGED module

\* one call on the module of the behaviour
NextSets == call = NoCall /\ GetDescriptorSets

SpecSets == InitSets /\ [][NextSets]_vars


\* the push-constant block: a struct of scalars and vectors at any offsets
MemberOffsetValues == {NoId, 0, 16}
PushStructParams ==
    {[DefaultParams EXCEPT !.members = ms, !.elem = FloatId] :
        ms \in SeqsUpTo({Member(ty, off) : ty \in {FloatId, VectorId},
                                          off \in MemberOffsetValues},
                        MaxMembers)}
\* a block whose last member is of any type
PushLastParams ==
    {[DefaultParams EXCEPT !.members = <<Member(FloatId, 0), Member(ty, 16)>>,
                           !.elem = FloatId] :
        ty \in TypeIds}
\* a block holding an array
PushArrayMembers ==
    {<<Member(ArrayId, 0)>>,
     <<Member(ArrayId, 0), Member(FloatId, 16)>>,
     <<Member(FloatId, 0), Member(ArrayId, 16)>>}
PushArrayParams ==
    {[DefaultParams EXCEPT !.members = ms, !.elem = e,
                           !.width = w, !.lenKind = k, !.len = n] :
        ms \in PushArrayMembers,
        e \in {FloatId, VectorId, MatrixId, SamplerId}, w \in {32, 64},
        k \in LiteralKinds, n \in 0..MaxLen}
\* a block holding an integer of any width
PushIntParams ==
    {[DefaultParams EXCEPT !.members = <<Member(IntId, 0)>>, !.elem = FloatId,
                           !.width = w] : w \in Widths}
PushBlockParams ==
    PushStructParams \cup PushLastParams \cup PushArrayParams \cup PushIntParams
\* variables of several storage classes over a fixed block
PushVars ==
    {[i \in 1..Len(cs) |-> Var(cs[i][1], cs[i][2], <<>>, <<VarName(i)>>)] :
        cs \in SeqsUpTo({"Uniform", "PushConstant", "Input"}
                            \X {StructId, VectorId, UnassignedId},
                        MaxPushVars)}
PushModules ==
    {<<p, <<Var("PushConstant", StructId, <<>>, <<>>)>> >> : p \in PushBlockParams}
    \cup {<<[DefaultParams EXCEPT !.elem = FloatId], vs>> : vs \in PushVars}

\* Reflection::new on a module holding a push-constant block
InitPush ==
    \E m \in PushModules :
        /\ header = m[1].version
        /\ types_global_values = TypeSection(m[1]) \o VarSection(m[2])
        /\ annotations = TypeAnnotations(m[1]) \o VarAnnotations(m[2])
        /\ debug_names = VarNames(m[2])
        /\ execution_modes = <<>>
        /\ call = NoCall
        /\ result = NoResult
        /\ outcomes = EmptyMap

\* get_push_constant_range() on &self
GetPushConstantRange ==
    /\ call' = Call("get_push_constant_range", NoId, "")
    /\ result' = get_push_constant_range
    /\ outcomes' = Recorded(call', result')
    /\ UNCHANGED module

\* calculate_variable_size_bytes on a type instruction of the module
SizeOfType(type_id) ==
    /\ IsOk(find_assignment_for(types_global_values, type_id))
    /\ call' = Call("calculate_variable_size_bytes", type_id, "")
    /\ result' = calculate_variable_size_bytes(
                     find_assignment_for(types_global_values, type_id).v, {})
    /\ outcomes' = Recorded(call', result')
    /\ UNCHANGED module

\* one call on the module of the behaviour
NextPush ==
    /\ call = NoCall
    /\ \/ GetPushConstantRange
       \/ \E type_id \in TypeIds : SizeOfType(type_id)

SpecPush == InitPush /\ [][NextPush]_vars


\* OpExecutionMode instructions: well formed ones of an entry point, and
\* ones of every other shape
EntryPointId == UnassignedId
ExecutionModeInstruction(operands) ==
    Instruction("ExecutionMode", NoId, NoId, operands)
LocalSizeModes ==
    {ExecutionModeInstruction(<<IdRef(EntryPointId), Operand("ExecutionMode", mode),
                                Lit32(x), Lit32(MaxDim), Lit32(1)>>) :
        mode \in {"LocalSize", "LocalSizeHint"}, x \in 1..MaxDim}
OtherModes ==
    {ExecutionModeInstruction(operands) : operands \in
        { <<>>,
          <<IdRef(EntryPointId)>>,
          <<IdRef(EntryPointId), Operand("ExecutionMode", "OriginUpperLeft")>>,
          <<IdRef(EntryPointId), Operand("ExecutionMode", "LocalSizeId"),
            IdRef(LenId), IdRef(LenId), IdRef(LenId)>>,
          <<IdRef(EntryPointId), Operand("ExecutionMode", "LocalSize"),
            Lit32(1), Lit32(1)>>,
          <<IdRef(EntryPointId), Operand("ExecutionMode", "LocalSize"),
            Lit32(1), Lit32(1), Lit32(1), Lit32(1)>>,
          <<IdRef(EntryPointId), Operand("ExecutionMode", "LocalSize"),
            Lit32(1), Operand("LiteralInt64", 1), Lit32(1)>>,
          <<Operand("ExecutionMode", "LocalSize"), Lit32(1), Lit32(1), Lit32(1)>> }}
ModeSections == SeqsUpTo(LocalSizeModes \cup OtherModes, MaxModes)

\* Reflection::new on a module holding execution modes
InitGroup ==
    \E modes \in ModeSections :
        /\ header = DefaultParams.version
        /\ execution_modes = modes
        /\ types_global_values = TypeSection(DefaultParams)
        /\ annotations = TypeAnnotations(DefaultParams)
        /\ debug_names = <<>>
        /\ call = NoCall
        /\ result = NoResult
        /\ outcomes = EmptyMap

\* get_compute_group_size() on &self
GetComputeGroupSize ==
    /\ call' = Call("get_compute_group_size", NoId, "")
    /\ result' = get_compute_group_size
    /\ outcomes' = Recorded(call', result')
    /\ UNCHANGED module

\* one call on the module of the behaviour
NextGroup == call = NoCall /\ GetComputeGroupSize

SpecGroup == InitGroup /\ [][NextGroup]_vars


\* one or two variables over a block or an array of blocks, beside a
\* workgroup size
CallVar ==
    {Var(sc, target, <<DecoSet(0), DecoBinding(b)>>, <<"a">>) :
        sc \in {"Uniform", "StorageBuffer", "PushConstant"},
        target \in {StructId, ArrayId}, b \in {0, MaxIndex}}
CallVars ==
    {<<v>> : v \in CallVar}
    \cup {<<v, w>> : v \in CallVar, w \in {x \in CallVar : x.target = StructId}}

\* Reflection::new on a module that is then used for several calls
InitCalls ==
    \E vs \in CallVars :
        /\ header = DefaultParams.version
        /\ execution_modes =
              <<ExecutionModeInstruction(
                    <<IdRef(EntryPointId), Operand("ExecutionMode", "LocalSize"),
                      Lit32(MaxDim), Lit32(1), Lit32(1)>>)>>
        /\ types_global_values = TypeSection(DefaultParams) \o VarSection(vs)
        /\ annotations = TypeAnnotations(DefaultParams) \o VarAnnotations(vs)
        /\ debug_names = VarNames(vs)
        /\ call = NoCall
        /\ result = NoResult
        /\ outcomes = EmptyMap

\* the type of a uniform variable classified again, once get_descriptor_sets
\* was called
Reclassify(var) ==
    /\ Call("get_descriptor_sets", NoId, "") \in DOMAIN outcomes
    /\ var.opcode = "Variable"
    /\ var.operands[1].v \in UniformStorageClasses
    /\ ClassifyType(var.result_type, var.operands[1].v)

\* any sequence of calls on one Reflection
NextCalls ==
    \/ GetDescriptorSets
    \/ GetPushConstantRange
    \/ GetComputeGroupSize
    \/ \E i \in 1..Len(types_global_values) : Reclassify(types_global_values[i])

SpecCalls == InitCalls /\ [][NextCalls]_vars


\* annotation sections of every shape: decorations of two ids, a decoration
\* group (a result id and no operand) and a decoration whose operand 0 is
\* not an id
AnnotationLetters ==
    {Decorate(StructId, "Block"),
     DecorateLit(StructId, "Binding", 0),
     MemberDecorateLit(StructId, 0, "Offset", 0),
     Decorate(VectorId, "Block"),
     Instruction("DecorationGroup", NoId, UnassignedId, <<>>),
     Instruction("Decorate", NoId, NoId,
                 <<Lit32(StructId), Operand("Decoration", "Block")>>)}
AnnotationSections == SeqsUpTo(AnnotationLetters, MaxAnnotations)

\* Reflection::new on a module with such an annotation section
InitAnnotations ==
    \E anns \in AnnotationSections :
        /\ header = DefaultParams.version
        /\ execution_modes = <<>>
        /\ types_global_values = TypeSection(DefaultParams)
        /\ annotations = anns
        /\ debug_names = <<>>
        /\ call = NoCall
        /\ result = NoResult
        /\ outcomes = EmptyMap

\* find_annotations_for_id(&module.annotations, id)
FindAnnotationsForId(id) ==
    /\ call' = Call("find_annotations_for_id", id, "")
    /\ result' = find_annotations_for_id(annotations, id)
    /\ outcomes' = Recorded(call', result')
    /\ UNCHANGED module

\* one call on the module of the behaviour
NextAnnotations ==
    /\ call = NoCall
    /\ \E id \in {StructId, VectorId, UnassignedId} : FindAnnotationsForId(id)

SpecAnnotations == InitAnnotations /\ [][NextAnnotations]_vars


\* type declarations that refer to each other in chains and in cycles: a
\* block whose last member is a scalar, the block itself, an array or a
\* matrix, over arrays of scalars, of blocks and of arrays
DescentParams ==
    {[DefaultParams EXCEPT !.members = <<Member(FloatId, 0), Member(ty, 16)>>,
                           !.elem = e, !.lenKind = k] :
        ty \in {FloatId, StructId, ArrayId, MatrixId},
        e \in {FloatId, SamplerId, StructId, RuntimeOfArrayId},
        k \in LiteralKinds}
\* a uniform variable and a push constant over these types
DescentVars ==
    {<<Var("Uniform", t, <<DecoSet(0), DecoBinding(0)>>, <<>>),
       Var("PushConstant", u, <<>>, <<>>)>> :
        t \in {StructId, ArrayId, RuntimeArrayId, RuntimeOfArrayId},
        u \in {StructId, ArrayId}}

\* Reflection::new on a module whose type ids form chains and cycles
InitDescent ==
    \E p \in DescentParams, vs \in DescentVars :
        /\ header = p.version
        /\ execution_modes = <<>>
        /\ types_global_values = TypeSection(p) \o VarSection(vs)
        /\ annotations = TypeAnnotations(p) \o VarAnnotations(vs)
        /\ debug_names = VarNames(vs)
        /\ call = NoCall
        /\ result = NoResult
        /\ outcomes = EmptyMap

\* one call on the module of the behaviour
NextDescent ==
    /\ call = NoCall
    /\ \/ GetDescriptorSets
       \/ GetPushConstantRange

SpecDescent == InitDescent /\ [][NextDescent]_vars

(***************************************************************************)
(* Claims about the type classifier (checked under SpecClassify).          *)
(***************************************************************************)
Assigned(id) ==
    \E i \in 1..Len(types_global_values) : types_global_values[i].result_id = id
InstrOf(id) ==
    types_global_values[CHOOSE i \in 1..Len(types_global_values) :
                            types_global_values[i].result_id = id]
Classified == call.op = "get_descriptor_type_for_var" /\ Assigned(call.type_id)
\* the type instruction that was classified
Arg == InstrOf(call.type_id)
\* the type behind a pointer
Pointee(t) == IF t.opcode = "TypePointer" THEN InstrOf(t.operands[2].v) ELSE t
\* the length constant an array type names, and the width of its TypeInt
LenConstant(t) == InstrOf(t.operands[2].v)
LenValue(t) == LenConstant(t).operands[1].v
LenKind(t) == LenConstant(t).operands[1].k
LenWidth(t) == InstrOf(LenConstant(t).result_type).operands[1].v

\* C1: a classified TypeRuntimeArray has binding_count Unbounded; a classified
\* TypeArray whose length constant is n has StaticSized(n) and n >= 1 (so a
\* length of 0 gives no descriptor); every other type that is not a pointer
\* has One; and Unbounded comes from no type other than a TypeRuntimeArray
\* (reached directly or through the pointer that forwards its pointee).
C1_BindingCountByOpcode ==
    (Classified /\ IsOk(result)) =>
        /\ Arg.opcode = "TypeRuntimeArray" => result.v.binding_count = Unbounded
        /\ Arg.opcode = "TypeArray" =>
              /\ result.v.binding_count = StaticSized(LenValue(Arg))
              /\ LenValue(Arg) >= 1
        /\ Arg.opcode \in {"TypeSampler", "TypeImage", "TypeSampledImage",
                           "TypeStruct", "TypeAccelerationStructureKHR"} =>
              result.v.binding_count = One
        /\ result.v.binding_count = Unbounded =>
              Pointee(Arg).opcode = "TypeRuntimeArray"
        /\ Arg.opcode = "TypePointer" /\ Pointee(Arg).opcode = "TypeArray" =>
              result.v.binding_count = StaticSized(LenValue(Pointee(Arg)))

C1_Witness ==
    /\ Classified /\ IsOk(result)
    /\ Arg.opcode = "TypeArray"
    /\ result.v.binding_count = StaticSized(MaxLen)

\* C2: the struct decision table.
Before13 == header[1] < 1 \/ (header[1] = 1 /\ header[2] < 3)
After13 == header[1] > 1 \/ (header[1] = 1 /\ header[2] > 3)
HasBlock == \E i \in 1..Len(annotations) : annotations[i] = Decorate(StructId, "Block")
HasBufferBlock ==
    \E i \in 1..Len(annotations) : annotations[i] = Decorate(StructId, "BufferBlock")

C2_StructDecisionTable ==
    (Classified /\ Arg.opcode = "TypeStruct") =>
        IF header = NoHeader THEN IsErr(result, "MissingHeader")
        ELSE IF ~After13 /\ HasBufferBlock
        THEN result = Ok(DescriptorInfo(STORAGE_BUFFER, One, ""))
        ELSE IF ~Before13
        THEN (HasBlock /\ ~HasBufferBlock) =>
                IF call.storage_class \in {"Uniform", "UniformConstant"}
                THEN result = Ok(DescriptorInfo(UNIFORM_BUFFER, One, ""))
                ELSE IF call.storage_class = "StorageBuffer"
                THEN result = Ok(DescriptorInfo(STORAGE_BUFFER, One, ""))
                ELSE IsErr(result, "UnknownStorageClass")
        ELSE IF HasBlock
        THEN result = Ok(DescriptorInfo(UNIFORM_BUFFER, One, ""))
        ELSE result = Err("UnknownStruct", Arg, 0)

C2_Witness ==
    /\ Classified /\ Arg.opcode = "TypeStruct"
    /\ header = <<1, 3>> /\ HasBufferBlock /\ ~HasBlock
    /\ result = Ok(DescriptorInfo(STORAGE_BUFFER, One, ""))

\* C3: the image table over Dim (operand 1) and sampled (operand 5).
ImageDim(t) == t.operands[2].v
ImageSampled(t) == t.operands[6].v
ImageTable(t) ==
    LET d == ImageDim(t)
        s == ImageSampled(t)
    IN  CASE d = "DimBuffer" /\ s = 1 -> Ok(DescriptorInfo(UNIFORM_TEXEL_BUFFER, One, ""))
          [] d = "DimBuffer" /\ s = 2 -> Ok(DescriptorInfo(STORAGE_TEXEL_BUFFER, One, ""))
          [] d = "DimSubpassData" -> Ok(DescriptorInfo(INPUT_ATTACHMENT, One, ""))
          [] d \notin {"DimBuffer", "DimSubpassData"} /\ s = 1 ->
                Ok(DescriptorInfo(SAMPLED_IMAGE, One, ""))
          [] d \notin {"DimBuffer", "DimSubpassData"} /\ s = 2 ->
                Ok(DescriptorInfo(STORAGE_IMAGE, One, ""))
          [] OTHER -> Err("ImageSampledFieldUnknown", t, s)

C3_ImageTable ==
    (Classified /\ Arg.opcode = "TypeImage") => result = ImageTable(Arg)

C3_Witness ==
    /\ Classified /\ Arg.opcode = "TypeImage"
    /\ ImageDim(Arg) = "DimSubpassData" /\ ImageSampled(Arg) = 0
    /\ result = Ok(DescriptorInfo(INPUT_ATTACHMENT, One, ""))

\* C4: a TypeSampledImage over an image type: with Dim Buffer the outcome is
\* the image's own (its texel-buffer descriptor unchanged); with any other Dim
\* but SubpassData the image's descriptor with ty COMBINED_IMAGE_SAMPLER and
\* binding_count and name kept (an image that does not classify keeps its
\* error); with Dim SubpassData the call aborts.
SampledImageOf(t) == InstrOf(t.operands[1].v)

C4_SampledImage ==
    (Classified /\ Arg.opcode = "TypeSampledImage"
        /\ SampledImageOf(Arg).opcode = "TypeImage") =>
        LET image == ImageTable(SampledImageOf(Arg))
            dim == ImageDim(SampledImageOf(Arg))
        IN  CASE dim = "DimSubpassData" -> IsPanic(result)
              [] dim = "DimBuffer" ->
                    /\ result = image
                    /\ IsOk(result) => result.v.ty \in {UNIFORM_TEXEL_BUFFER,
                                                        STORAGE_TEXEL_BUFFER}
              [] OTHER ->
                    IF IsOk(image)
                    THEN result = Ok(DescriptorInfo(COMBINED_IMAGE_SAMPLER,
                                                    image.v.binding_count,
                                                    image.v.name))
                    ELSE result = image

C4_Witness ==
    /\ Classified /\ Arg.opcode = "TypeSampledImage"
    /\ ImageDim(SampledImageOf(Arg)) = "DimBuffer"
    /\ result = Ok(DescriptorInfo(STORAGE_TEXEL_BUFFER, One, ""))

\* C10: the length constant of a TypeArray is read by the width of its
\* TypeInt: width 32 reads a LiteralInt32 and width 64 a LiteralInt64 (the
\* other literal kind is an OperandError on the constant), and both widths
\* are accepted; every other width fails with UnexpectedIntWidth(width).
C10_ArrayLengthWidth ==
    (Classified /\ Arg.opcode = "TypeArray") =>
        LET w == LenWidth(Arg)
            expected == IF w = 32 THEN "LiteralInt32" ELSE "LiteralInt64"
        IN  IF w \notin {32, 64}
            THEN result = Err("UnexpectedIntWidth", NoInstr, w)
            ELSE /\ ~IsErr(result, "UnexpectedIntWidth")
                 /\ LenKind(Arg) # expected =>
                       result = Err("OperandError", LenConstant(Arg), 0)
                 /\ LenKind(Arg) = expected =>
                       /\ ~(IsErr(result, "OperandError")
                              /\ result.instr = LenConstant(Arg))
                       /\ IsOk(result) =>
                             result.v.binding_count = StaticSized(LenValue(Arg))
                       /\ (LenValue(Arg) >= 1 /\ call.type_id = ArrayOfRuntimeId
                             /\ call.storage_class \in UniformStorageClasses
                             /\ InstrOf(RuntimeArrayId).operands[1].v = StructId
                             /\ header = <<1, 3>> /\ HasBlock /\ ~HasBufferBlock) =>
                             IsOk(result)

\* the element type of an array and the type its nested arrays end in
ArrayOpcodes == {"TypeArray", "TypeRuntimeArray"}
ElementOf(t) == InstrOf(t.operands[1].v)
RECURSIVE InnermostOf(_, _)
InnermostOf(t, seen) ==
    IF t.opcode \notin ArrayOpcodes \/ t.result_id \in seen THEN t
    ELSE InnermostOf(ElementOf(t), seen \cup {t.result_id})
NestedArray ==
    /\ Classified /\ Arg.opcode \in ArrayOpcodes
    /\ ElementOf(Arg).opcode \in ArrayOpcodes

\* C18: of nested arrays the outermost alone gives binding_count: a
\* TypeArray of length n whose element is a TypeRuntimeArray or another
\* TypeArray classifies as StaticSized(n), a TypeRuntimeArray whose element
\* is a TypeArray as Unbounded; everything else of the descriptor is that of
\* the innermost element type, which is no array and has binding_count One.
C18_OutermostArrayCounts ==
    (NestedArray /\ IsOk(result)) =>
        LET terminal == get_descriptor_type_for_var(
                            InnermostOf(Arg, {}).result_id,
                            call.storage_class, {})
        IN  /\ InnermostOf(Arg, {}).opcode \notin ArrayOpcodes
            /\ IsOk(terminal) /\ terminal.v.binding_count = One
            /\ result.v =
                  [terminal.v EXCEPT !.binding_count =
                      IF Arg.opcode = "TypeArray"
                      THEN StaticSized(LenValue(Arg)) ELSE Unbounded]

\* an array of one array of InnerLen samplers
C18_Witness ==
    /\ NestedArray /\ call.type_id = ArrayId
    /\ ElementOf(Arg).result_id = InnerArrayId
    /\ LenValue(ElementOf(Arg)) = InnerLen
    /\ result = Ok(DescriptorInfo(SAMPLER, StaticSized(1), ""))

C10_Witness ==
    /\ Classified /\ Arg.opcode = "TypeArray"
    /\ LenWidth(Arg) = 64 /\ LenKind(Arg) = "LiteralInt64"
    /\ IsOk(result) /\ result.v.binding_count = StaticSized(1)

\* the struct has no decoration that names a buffer: no Block from 1.3 on
\* (the BufferBlock still accepted at exactly 1.3 set aside), neither Block
\* nor BufferBlock before 1.3
LacksBufferDecoration ==
    /\ header # NoHeader
    /\ ~HasBlock
    /\ (Before13 \/ header = <<1, 3>>) => ~HasBufferBlock

\* C11 as claimed: a struct without Block in a module of version 1.3 or
\* later, and a struct with neither Block nor BufferBlock in an earlier one,
\* makes the classification return the error value UnknownStruct(instr).
C11_UnknownStructReturned ==
    (Classified /\ Arg.opcode = "TypeStruct" /\ LacksBufferDecoration) =>
        result = Err("UnknownStruct", Arg, 0)

\* C11 amended: a struct with neither Block nor BufferBlock in a module
\* before 1.3 makes the classification return UnknownStruct(instr); from 1.3
\* on a struct without Block aborts on one of the two assertions, and
\* UnknownStruct is returned in no other case.
C11_UnknownStructBefore13 ==
    (Classified /\ Arg.opcode = "TypeStruct") =>
        /\ LacksBufferDecoration =>
              IF Before13 THEN result = Err("UnknownStruct", Arg, 0)
              ELSE /\ IsPanic(result)
                   /\ result.msg \in
                        {"BufferBlock decoration is obsolete in SPIRV > 1.3",
                         "Struct requires Block annotation in SPIRV > 1.3"}
        /\ IsErr(result, "UnknownStruct") =>
              Before13 /\ ~HasBlock /\ ~HasBufferBlock

\* a struct without decorations in a module of version 1.3 or later
C11_Witness ==
    /\ Classified /\ Arg.opcode = "TypeStruct"
    /\ header # NoHeader /\ ~Before13 /\ ~HasBlock /\ ~HasBufferBlock
    /\ result = Panic("Struct requires Block annotation in SPIRV > 1.3")


(***************************************************************************)
(* Claims about get_descriptor_sets (checked under SpecSets).              *)
(***************************************************************************)
SetsCalled == call.op = "get_descriptor_sets"
\* positions of the uniform variables that have a result id
UniformVarIdx ==
    {i \in 1..Len(types_global_values) :
        /\ types_global_values[i].opcode = "Variable"
        /\ types_global_values[i].operands[1].v \in UniformStorageClasses
        /\ types_global_values[i].result_id # NoId}
UVar(i) == types_global_values[i]
\* the qualifying decorations `d` of variable i: three or more operands,
\* operand 1 Decoration(d), operand 2 a LiteralInt32
DecoIdx(i, d) ==
    {j \in 1..Len(annotations) :
        /\ annotations[j].operands[1] = IdRef(UVar(i).result_id)
        /\ Len(annotations[j].operands) >= 3
        /\ annotations[j].operands[2] = Operand("Decoration", d)
        /\ annotations[j].operands[3].k = "LiteralInt32"}
DecoCount(i, d) == Cardinality(DecoIdx(i, d))
DecoValue(i, d) == annotations[CHOOSE j \in DecoIdx(i, d) : TRUE].operands[3].v
Repeated(i) == DecoCount(i, "DescriptorSet") > 1 \/ DecoCount(i, "Binding") > 1
Decorated(i) == DecoCount(i, "DescriptorSet") = 1 /\ DecoCount(i, "Binding") = 1
Slot(i) == <<DecoValue(i, "DescriptorSet"), DecoValue(i, "Binding")>>
\* the name-table entry of variable i: its last OpName
NameIdx(i) ==
    {j \in 1..Len(debug_names) :
        /\ debug_names[j].opcode = "Name"
        /\ debug_names[j].operands[1] = IdRef(UVar(i).result_id)}
HasName(i) == NameIdx(i) # {}
NameOf(i) ==
    debug_names[CHOOSE j \in NameIdx(i) : \A k \in NameIdx(i) : k <= j].operands[2].v
IsGlobals(i) == HasName(i) /\ NameOf(i) = "$Globals"
\* the classification of variable i's type, taken alone
ClassifiedAlone(i) ==
    get_descriptor_type_for_var(UVar(i).result_type, UVar(i).operands[1].v,
                                {})
\* variable i, taken alone, passes every step before the insertion
Fine(i) == Decorated(i) /\ IsOk(ClassifiedAlone(i)) /\ ~IsGlobals(i)
\* the variables before i are inserted without failure
Reached(i) ==
    /\ \A k \in UniformVarIdx : k < i => Fine(k)
    /\ \A k, l \in UniformVarIdx : (k < l /\ l < i) => Slot(k) # Slot(l)
FirstUniformVar == CHOOSE i \in UniformVarIdx : \A k \in UniformVarIdx : i <= k
Collision ==
    \E i, k \in UniformVarIdx :
        i # k /\ Decorated(i) /\ Decorated(k) /\ Slot(i) = Slot(k)

\* C6 as claimed: a uniform variable with DescriptorSet and Binding
\* decorations and the name "$Globals" makes get_descriptor_sets fail with
\* BindingGlobalParameterBuffer whatever its type.
C6_GlobalsWhateverType ==
    (SetsCalled /\ \E i \in UniformVarIdx :
                      Decorated(i) /\ IsGlobals(i) /\ Reached(i)) =>
        IsErr(result, "BindingGlobalParameterBuffer")

\* C6 amended: when get_descriptor_sets reaches a uniform variable with one
\* DescriptorSet and one Binding decoration whose name-table entry is
\* "$Globals", it fails with BindingGlobalParameterBuffer if the variable's
\* type classifies, and with the classifier's own failure if it does not;
\* and no module with a uniform variable named "$Globals" gives Ok.
C6_GlobalsAfterClassification ==
    SetsCalled =>
        /\ \A i \in UniformVarIdx :
              (Decorated(i) /\ IsGlobals(i) /\ Reached(i)) =>
                  IF IsOk(ClassifiedAlone(i))
                  THEN result = Err("BindingGlobalParameterBuffer", NoInstr, 0)
                  ELSE result = ClassifiedAlone(i)
        /\ (\E i \in UniformVarIdx : IsGlobals(i)) => ~IsOk(result)

C6_Witness ==
    /\ SetsCalled
    /\ \E i \in UniformVarIdx :
          /\ Decorated(i) /\ IsGlobals(i) /\ Reached(i)
          /\ IsOk(ClassifiedAlone(i))
          /\ UVar(i).operands[1].v = "StorageBuffer"
    /\ IsErr(result, "BindingGlobalParameterBuffer")

C8_SetAndBindingRequired ==
    SetsCalled =>
        /\ \A i \in UniformVarIdx : Reached(i) =>
              /\ Repeated(i) =>
                    /\ IsPanic(result)
                    /\ result.msg \in {"Set already has a value!",
                                       "Binding already has a value!"}
              /\ (~Repeated(i) /\ DecoCount(i, "DescriptorSet") = 0) =>
                    result = Err("MissingSetDecoration", UVar(i), 0)
              /\ (~Repeated(i) /\ DecoCount(i, "DescriptorSet") = 1
                    /\ DecoCount(i, "Binding") = 0) =>
                    result = Err("MissingBindingDecoration", UVar(i), 0)
        /\ IsOk(result) =>
              /\ \A i \in UniformVarIdx :
                    /\ Decorated(i)
                    /\ Slot(i)[1] \in DOMAIN result.v
                    /\ Slot(i)[2] \in DOMAIN result.v[Slot(i)[1]]
              /\ \A s \in DOMAIN result.v : \A b \in DOMAIN result.v[s] :
                    \E i \in UniformVarIdx : Decorated(i) /\ Slot(i) = <<s, b>>

C8_Witness ==
    /\ SetsCalled
    /\ \E i \in UniformVarIdx :
          /\ DecoCount(i, "DescriptorSet") = 1 /\ DecoCount(i, "Binding") = 0
          /\ \E j \in 1..Len(annotations) :
                /\ annotations[j].opcode = "DecorateId"
                /\ annotations[j].operands[1] = IdRef(UVar(i).result_id)
          /\ result = Err("MissingBindingDecoration", UVar(i), 0)

\* positions of the OpVariables of every other storage class
OtherClassVarIdx ==
    {i \in 1..Len(types_global_values) :
        /\ types_global_values[i].opcode = "Variable"
        /\ types_global_values[i].operands[1].v \notin UniformStorageClasses}
\* the (set, binding) pairs of a returned map
Entries(map) ==
    {sb \in (DOMAIN map) \X UNION {DOMAIN map[k] : k \in DOMAIN map} :
        sb[2] \in DOMAIN map[sb[1]]}
\* the descriptor of uniform variable i: its classification under its name
DescriptorOf(i) ==
    [ClassifiedAlone(i).v EXCEPT !.name = IF HasName(i) THEN NameOf(i) ELSE ""]

\* C13: a returned map holds exactly one entry per uniform variable (storage
\* class Uniform, UniformConstant or StorageBuffer), at the variable's
\* decorated (set, binding) and holding the variable's descriptor; the
\* variables of any other storage class contribute no entry.
C13_EntriesAreUniformVariables ==
    (SetsCalled /\ IsOk(result)) =>
        /\ \A i \in UniformVarIdx :
              /\ Decorated(i)
              /\ Slot(i) \in Entries(result.v)
              /\ result.v[Slot(i)[1]][Slot(i)[2]] = DescriptorOf(i)
        /\ Cardinality(Entries(result.v)) = Cardinality(UniformVarIdx)
        /\ \A sb \in Entries(result.v) :
              \E i \in UniformVarIdx : Decorated(i) /\ Slot(i) = sb

\* a map with the entry of a uniform variable and none for a variable of
\* another storage class that is decorated with a set and a binding of its
\* own and has a type the classifier accepts
C13_Witness ==
    /\ SetsCalled /\ IsOk(result)
    /\ UniformVarIdx # {}
    /\ \E j \in OtherClassVarIdx :
          /\ Decorated(j)
          /\ IsOk(ClassifiedAlone(j))
          /\ Slot(j) \notin Entries(result.v)

\* the keys of a sequence of entries are strictly ascending
Ascending(entries) ==
    \A i \in 1..(Len(entries) - 1) : entries[i][1] < entries[i + 1][1]

PushCalled == call.op = "get_push_constant_range"
\* positions of the OpVariables with storage class PushConstant
PushConstantVarIdx ==
    {i \in 1..Len(types_global_values) :
        /\ types_global_values[i].opcode = "Variable"
        /\ types_global_values[i].operands[1] =
               Operand("StorageClass", "PushConstant")}
OtherVarIdx ==
    {i \in 1..Len(types_global_values) :
        /\ types_global_values[i].opcode = "Variable"
        /\ i \notin PushConstantVarIdx}

\* C5: get_push_constant_range returns Ok(None) exactly when no OpVariable
\* has storage class PushConstant, and Err(TooManyPushConstants) exactly when
\* two or more have it, whatever the other variables and the types are.
C5_NoneAndTooMany ==
    PushCalled =>
        /\ result = Ok(NoPushConstant) <=> PushConstantVarIdx = {}
        /\ IsErr(result, "TooManyPushConstants")
              <=> Cardinality(PushConstantVarIdx) >= 2

\* two push constants, one of a type no instruction declares, beside a
\* variable of another storage class
C5_Witness ==
    /\ PushCalled
    /\ Cardinality(PushConstantVarIdx) >= 2
    /\ OtherVarIdx # {}
    /\ \E i \in PushConstantVarIdx :
          ~Assigned(InstrOf(types_global_values[i].result_type).operands[2].v)
    /\ IsErr(result, "TooManyPushConstants")

\* the sizes the specification gives: <<n>> is a size of n bytes, <<>> is no
\* size (a type id that is not declared or lies on a cycle of type ids, or
\* an array length that is not a 32-bit literal)
OffsetsOn(id) ==
    {annotations[j].operands[4].v : j \in
        {k \in 1..Len(annotations) :
            /\ annotations[k].opcode = "MemberDecorate"
            /\ annotations[k].operands[1] = IdRef(id)
            /\ annotations[k].operands[3] = Operand("Decoration", "Offset")}}
MaxOffsetOn(id) ==
    IF OffsetsOn(id) = {} THEN 0
    ELSE CHOOSE x \in OffsetsOn(id) : \A y \in OffsetsOn(id) : y <= x
SizeTimes(size, count) == IF size = <<>> THEN <<>> ELSE <<size[1] * count>>
SizePlus(offset, size) == IF size = <<>> THEN <<>> ELSE <<offset + size[1]>>
RECURSIVE ExpectedSize(_, _)
ExpectedSize(id, seen) ==
    IF id \in seen \/ ~Assigned(id) THEN <<>>
    ELSE
    LET t == InstrOf(id)
        inner == seen \cup {id}
    IN  IF t.opcode \in {"TypeInt", "TypeFloat"} THEN <<t.operands[1].v \div 8>>
        ELSE IF t.opcode \in {"TypeVector", "TypeMatrix"}
        THEN SizeTimes(ExpectedSize(t.operands[1].v, inner), t.operands[2].v)
        ELSE IF t.opcode = "TypeArray"
        THEN IF LenKind(t) = "LiteralInt32"
             THEN SizeTimes(ExpectedSize(t.operands[1].v, inner), LenValue(t))
             ELSE <<>>
        ELSE IF t.opcode = "TypeStruct"
        THEN IF Len(t.operands) = 0 THEN <<0>>
             ELSE IF Len(t.operands) = 1
             THEN ExpectedSize(t.operands[1].v, inner)
             ELSE SizePlus(MaxOffsetOn(id),
                           ExpectedSize(t.operands[Len(t.operands)].v, inner))
        ELSE <<0>>

SizeCalled == call.op = "calculate_variable_size_bytes"
\* the type a single push-constant variable points to
PushConstantPointee ==
    LET var == types_global_values[CHOOSE i \in PushConstantVarIdx : TRUE]
    IN  InstrOf(var.result_type).operands[2].v

ArrayMemberIdx ==
    {j \in 1..Len(InstrOf(StructId).operands) :
        InstrOf(StructId).operands[j] = IdRef(ArrayId)}
PushBlockWithArray ==
    /\ PushCalled /\ Cardinality(PushConstantVarIdx) = 1
    /\ PushConstantPointee = StructId
    /\ ArrayMemberIdx # {}
    /\ ExpectedSize(ElementOf(InstrOf(ArrayId)).result_id, {StructId, ArrayId})
          # <<>>
ArrayIsLast == Len(InstrOf(StructId).operands) \in ArrayMemberIdx
ArrayClassified == get_descriptor_type_for_var(ArrayId, "Uniform", {})

\* C19 as claimed: whenever the push-constant block contains an array whose
\* length constant is a 64-bit literal, get_push_constant_range returns
\* Err(OperandError).
C19_Length64AlwaysFails ==
    (PushBlockWithArray /\ LenKind(InstrOf(ArrayId)) = "LiteralInt64") =>
        IsErr(result, "OperandError")

\* C19: the size calculation reads the length constant of a TypeArray as a
\* 32-bit literal whatever the width of the constant's TypeInt.  When the
\* array is the last member of the block, the member that is sized, a length
\* that is a 64-bit literal makes get_push_constant_range return the
\* OperandError of the constant and a 32-bit literal gives a size even under
\* a 64-bit TypeInt; an array that is not the last member is not sized and a
\* size is returned.  The classifier reads the 64-bit length of the same
\* array under a 64-bit TypeInt without an OperandError.
C19_SizedArrayLength32Only ==
    PushBlockWithArray =>
        LET a == InstrOf(ArrayId)
        IN  /\ (ArrayIsLast /\ LenKind(a) = "LiteralInt64") =>
                  result = Err("OperandError", LenConstant(a), 0)
            /\ (ArrayIsLast /\ LenKind(a) = "LiteralInt32") => IsOk(result)
            /\ ~ArrayIsLast => IsOk(result)
            /\ (LenKind(a) = "LiteralInt64" /\ LenWidth(a) = 64
                  /\ LenValue(a) >= 1) =>
                  /\ ~IsErr(ArrayClassified, "OperandError")
                  /\ ElementOf(a).opcode = "TypeSampler" =>
                        ArrayClassified =
                            Ok(DescriptorInfo(SAMPLER,
                                              StaticSized(LenValue(a)), ""))

\* a block ending in an array of samplers with a 64-bit length
C19_Witness ==
    /\ PushBlockWithArray /\ ArrayIsLast
    /\ Len(InstrOf(StructId).operands) = 2
    /\ LenKind(InstrOf(ArrayId)) = "LiteralInt64"
    /\ LenWidth(InstrOf(ArrayId)) = 64
    /\ ElementOf(InstrOf(ArrayId)).opcode = "TypeSampler"
    /\ IsOk(ArrayClassified)
    /\ result = Err("OperandError", LenConstant(InstrOf(ArrayId)), 0)


(***************************************************************************)
(* Claims about get_compute_group_size (checked under SpecGroup).          *)
(***************************************************************************)
GroupCalled == call.op = "get_compute_group_size"
\* the shape the specification asks for: operands from position 1 on are
\* ExecutionMode(LocalSize | LocalSizeHint) and three 32-bit literals
IsLocalSize(inst) ==
    /\ inst.opcode = "ExecutionMode"
    /\ Len(inst.operands) = 5
    /\ inst.operands[2] \in {Operand("ExecutionMode", "LocalSize"),
                             Operand("ExecutionMode", "LocalSizeHint")}
    /\ \A j \in 3..5 : inst.operands[j].k = "LiteralInt32"
LocalSizeIdx ==
    {i \in 1..Len(global_inst_iter) : IsLocalSize(global_inst_iter[i])}
FirstLocalSize ==
    global_inst_iter[CHOOSE i \in LocalSizeIdx : \A k \in LocalSizeIdx : i <= k]
\* an OpExecutionMode without any operand, before position i
EmptyModeBefore(i) ==
    \E k \in 1..Len(global_inst_iter) :
        /\ k < i
        /\ global_inst_iter[k].opcode = "ExecutionMode"
        /\ global_inst_iter[k].operands = <<>>

\* C12 as claimed: get_compute_group_size returns (x, y, z) of the first
\* OpExecutionMode of the LocalSize shape, skips every OpExecutionMode of
\* another shape, those without operands included, without error or abort,
\* and returns None if nothing matches.
C12_FirstLocalSizeOthersSkipped ==
    GroupCalled =>
        IF LocalSizeIdx = {} THEN result = Ok(NoGroupSize)
        ELSE result = Ok(GroupSize(FirstLocalSize.operands[3].v,
                                   FirstLocalSize.operands[4].v,
                                   FirstLocalSize.operands[5].v))

\* what the code does: an OpExecutionMode without operands that the scan
\* reaches aborts it; in every other module the claim's result is returned
C12_EmptyModeAborts ==
    GroupCalled =>
        IF EmptyModeBefore(IF LocalSizeIdx = {} THEN Len(global_inst_iter) + 1
                           ELSE CHOOSE i \in LocalSizeIdx :
                                    \A k \in LocalSizeIdx : i <= k)
        THEN IsPanic(result)
        ELSE C12_FirstLocalSizeOthersSkipped


(***************************************************************************)
(* Claims about sequences of calls (checked under SpecCalls).              *)
(***************************************************************************)
\* the uniform variable whose type the last call classified
ReclassifiedIdx ==
    {i \in UniformVarIdx :
        /\ call = Call("get_descriptor_type_for_var", UVar(i).result_type,
                       UVar(i).operands[1].v)}
FirstSets == outcomes[Call("get_descriptor_sets", NoId, "")].first

\* every call returns the outcome of the first call of that operation, and
\* the type of the variable behind an entry of a returned map, classified
\* again, has the entry's ty and binding_count
OutcomesRepeat ==
    call # NoCall =>
        /\ call \in DOMAIN outcomes
        /\ result = outcomes[call].first
        /\ (Call("get_descriptor_sets", NoId, "") \in DOMAIN outcomes
              /\ IsOk(FirstSets)) =>
              \A i \in ReclassifiedIdx :
                  /\ IsOk(result)
                  /\ result.v.ty = FirstSets.v[Slot(i)[1]][Slot(i)[2]].ty
                  /\ result.v.binding_count =
                        FirstSets.v[Slot(i)[1]][Slot(i)[2]].binding_count

DescentStep(kind, id) ==
    IF id = NoId \/ ~Assigned(id) THEN NoId
    ELSE LET t == InstrOf(id)
         IN  IF kind = "classify"
             THEN IF t.opcode \in {"TypeArray", "TypeRuntimeArray",
                                   "TypeSampledImage"}
                  THEN t.operands[1].v
                  ELSE IF t.opcode = "TypePointer" THEN t.operands[2].v
                  ELSE NoId
             ELSE IF t.opcode \in {"TypeVector", "TypeMatrix", "TypeArray"}
                  THEN t.operands[1].v
                  ELSE IF t.opcode = "TypeStruct" /\ t.operands # <<>>
                  THEN t.operands[Len(t.operands)].v
                  ELSE NoId
RECURSIVE DescentAfter(_, _, _)
DescentAfter(kind, id, n) ==
    IF n = 0 THEN id ELSE DescentAfter(kind, DescentStep(kind, id), n - 1)
\* the descent from `root` comes back to a type id it has visited
Revisits(kind, root) ==
    \E m, n \in 0..Len(types_global_values) :
        /\ m < n
        /\ DescentAfter(kind, root, m) # NoId
        /\ DescentAfter(kind, root, m) = DescentAfter(kind, root, n)

AnnotationsCalled == call.op = "find_annotations_for_id"
\* positions of the annotations without an IdRef at operand 0
ShapelessIdx ==
    {i \in 1..Len(annotations) :
        \/ annotations[i].operands = <<>>
        \/ annotations[i].operands[1].k # "IdRef"}
FirstShapeless ==
    annotations[CHOOSE i \in ShapelessIdx : \A k \in ShapelessIdx : i <= k]
Targets(a) == a.operands[1] = IdRef(call.type_id)

\* C17: find_annotations_for_id returns, in source order, exactly the
\* annotations whose operand 0 is IdRef(id); if an annotation of the list,
\* targeting id or not, has no operand 0 or one that is not an IdRef, the
\* operand-shape error of the first such annotation is returned instead.
C17_AnnotationsOfId ==
    AnnotationsCalled =>
        IF ShapelessIdx = {}
        THEN result = Ok(SelectSeq(annotations, Targets))
        ELSE result = Err(IF FirstShapeless.operands = <<>>
                          THEN "OperandIndexError" ELSE "OperandError",
                          FirstShapeless, 0)

\* a decoration of the id, then a decoration group, which targets nothing
C17_Witness ==
    /\ AnnotationsCalled /\ call.type_id = StructId
    /\ Len(annotations) >= 2
    /\ annotations[1].operands # <<>> /\ Targets(annotations[1])
    /\ annotations[2].opcode = "DecorationGroup"
    /\ IsErr(result, "OperandIndexError")

====
